---- MODULE Spec2Model ----
(***************************************************************************)
(* Email ingestion pipeline of toms-gym                                    *)
(* (Backend/toms_gym/integrations/email_upload.py): pollers that fetch     *)
(* unseen mail, the per-message orchestrator process_email, and the        *)
(* EmailProcessingLog ledger that reserves a fingerprint for processing.   *)
(*                                                                         *)
(* Every statement that touches shared state (the ledger, the mailbox      *)
(* flags, the user and competition tables, the upload endpoint, the clock) *)
(* is one step of a poller; the local computation between two such         *)
(* statements belongs to the step before it.                               *)
(*                                                                         *)
(* Time is counted in ticks of a global clock.  The dedupe window of       *)
(* EMAIL_DEDUPE_WINDOW_MINUTES * 60 seconds is DedupeWindow ticks, and the *)
(* 500 characters of body that enter the fingerprint are FpBodyLen body    *)
(* tokens.                                                                 *)
(***************************************************************************)
EXTENDS Integers, Sequences, FiniteSets, TLC

\* ------------------------------------------------------------------ bounds
\* Last value of the clock.
MaxClock == 2
\* Poll ticks (check_inbox calls) the pollers may start in all.
MaxPolls == 2
MaxBody == 3
MaxParts == 3

\* ------------------------------------------------------- program constants
\* EMAIL_DEDUPE_WINDOW_MINUTES * 60 seconds, in clock ticks.
DedupeWindow == 2
\* body[:500], in body tokens.
FpBodyLen == 2

\* EMAIL_USERNAME: the polled mailbox's own address.
EMAIL_USERNAME == "bot"
CONFIRMATION_HEADER_VALUE == "confirmation"
\* Subjects the notifier writes (the check mark and cross mark subjects).
ConfirmationSubjects == {"OK Tom's Gym", "FAIL Tom's Gym"}

\* The poller instances (deployed instances, or overlapping ticks).
Workers == {"A", "B"}

\* Addresses that occur in the messages explored.
Emails == {"ann", "bot"}

NoId == 0
NoMid == "none"
NoError == "null"

Min(a, b) == IF a < b THEN a ELSE b

\* str.lower() on the header values explored.
Lower(s) ==
    CASE s = "Confirmation" -> "confirmation"
      [] s = "No" -> "no"
      [] s = "Junk" -> "junk"
      [] s = "T30G" -> "t30g"
      [] s = "DL" -> "dl"
      [] OTHER -> s

\* ---------------------------------------------------------------- messages
\* A message as process_email reads it: the headers of the guard, the
\* fields of the fingerprint, the Message-ID, the forwarded From: line found
\* in the body ("" when there is none), the number of video parts, and where
\* parsing it raises ("": nowhere; "body": in get_email_body, on a part with
\* an unknown charset; "attachments": in get_video_attachments, on a file
\* name encoded in an unknown charset).
Msg(from, subj, date, body, mid, hdr, auto, prec, orig, video, raises) ==
    [from |-> from, subj |-> subj, date |-> date, body |-> body, mid |-> mid,
     hdr |-> hdr, auto |-> auto, prec |-> prec, orig |-> orig, video |-> video,
     raises |-> raises]

LiftVideo   == Msg("ann", "lift", "d1", <<"t30g", " ", "100", " ", "sq">>, "m1", "", "", "", "", 1, "")
NoVideo     == Msg("ann", "lift", "d2", <<"t30g", " ", "225">>, "m2", "", "", "", "", 0, "")
BotReply    == Msg("bot", "OK Tom's Gym", "d3", <<"uploaded">>, "m3",
                   "confirmation", "auto-generated", "", "", 0, "")
BadBody     == Msg("ann", "lift", "d5", <<>>, "m5", "", "", "", "", 1, "body")
BadParts    == Msg("ann", "lift", "d6", <<"t30g", " ", "100">>, "m6", "", "", "", "", 1,
                   "attachments")
\* Same Message-ID as NoVideo, another fingerprint.
SameMid     == Msg("ann", "lift", "d4", <<"t30g", " ", "225", "lbs">>, "m2", "", "", "", "", 0, "")

\* A second video from the same sender, with no tag in its text.
SecondVideo == Msg("ann", "lift", "d7", <<"PR", "!">>, "m7", "", "", "", "", 1, "")
\* A message the mailbox's owner sends to the mailbox itself, with no marker.
SelfSent    == Msg("bot", "lift", "d8", <<"t30g", " ", "100", "kg">>, "m8", "", "", "", "", 0, "")

\* The mailbox contents explored: each is the INBOX when the pollers start.
Mailboxes ==
    { <<LiftVideo>>,
      <<LiftVideo, NoVideo>>,
      <<BotReply, LiftVideo>>,
      <<NoVideo, SameMid>>,
      <<BadBody, BadParts>>,
      <<LiftVideo, SecondVideo>>,
      <<SelfSent>> }

\* The messages explored for the guard: every combination of these header
\* values, senders, subjects and attachments.
GuardMessages ==
    { Msg(from, subj, "d9", <<"t30g", " ", "100">>, "m9", hdr, auto, prec, "", video, "") :
        from \in Emails,
        subj \in {"lift", "OK Tom's Gym", "FAIL Tom's Gym"},
        hdr \in {"", "confirmation", "Confirmation", "other"},
        auto \in {"", "no", "No", "auto-generated"},
        prec \in {"", "bulk", "Junk", "list", "auto_reply", "first-class"},
        video \in {0, 1} }

\* The fingerprint taken over the whole body.
FingerprintWholeBody(from, subj, date, body) == <<from, subj, date, body>>

\* --------------------------------------------------------- pure functions
\* _compute_email_fingerprint: a hash of from|subject|date|body[:500].  The
\* hash is injective on the payloads explored, so the payload stands for it.
_compute_email_fingerprint(from, subj, date, body) ==
    <<from, subj, date, SubSeq(body, 1, Min(Len(body), FpBodyLen))>>

Fingerprint(m) == _compute_email_fingerprint(m.from, m.subj, m.date, m.body)

\* message_id of process_email: None for an empty Message-ID header.
MessageId(m) == IF m.mid = "" THEN NoMid ELSE m.mid

\* The guard without the test of the marker header.
ShouldSkipNoMarker(m) ==
    \/ Lower(m.auto) # "" /\ Lower(m.auto) # "no"
    \/ Lower(m.prec) \in {"auto_reply", "bulk", "junk", "list"}
    \/ /\ m.from # ""
       /\ Lower(m.from) = Lower(EMAIL_USERNAME)
       /\ m.subj \in ConfirmationSubjects

\* The guard that skips every message the mailbox's owner sent.
ShouldSkipSelf(m) ==
    \/ Lower(m.hdr) = CONFIRMATION_HEADER_VALUE
    \/ Lower(m.auto) # "" /\ Lower(m.auto) # "no"
    \/ Lower(m.prec) \in {"auto_reply", "bulk", "junk", "list"}
    \/ /\ m.from # ""
       /\ Lower(m.from) = Lower(EMAIL_USERNAME)

\* The guard at the head of process_email: TRUE when the message is skipped.
\* The header values are compared in lower case.
ShouldSkip(m) ==
    \/ Lower(m.hdr) = CONFIRMATION_HEADER_VALUE
    \/ Lower(m.auto) # "" /\ Lower(m.auto) # "no"
    \/ Lower(m.prec) \in {"auto_reply", "bulk", "junk", "list"}
    \/ /\ m.from # ""
       /\ Lower(m.from) = Lower(EMAIL_USERNAME)
       /\ m.subj \in ConfirmationSubjects

\* A notification composed with no marker header and no Auto-Submitted.
SendPlain(success) ==
    Msg(EMAIL_USERNAME, IF success THEN "OK Tom's Gym" ELSE "FAIL Tom's Gym", "",
        <<IF success THEN "uploaded" ELSE "failed">>, "", "", "", "", "", 0, "")

\* send_confirmation_email: the message it composes.  From is the mailbox's
\* own address; the marker header and Auto-Submitted are set; the code sets
\* neither Date nor Message-ID.
send_confirmation_email(success) ==
    Msg(EMAIL_USERNAME, IF success THEN "OK Tom's Gym" ELSE "FAIL Tom's Gym", "",
        <<IF success THEN "uploaded" ELSE "failed">>, "",
        CONFIRMATION_HEADER_VALUE, "auto-generated", "", "", 0, "")

\* extract_original_sender: the forwarded From: address, else the forwarder.
extract_original_sender(m) == IF m.orig # "" THEN m.orig ELSE m.from

\* ------------------------------------------------------------ the tag parser
\* A text is a sequence of tokens: the tag, blanks, numbers, unit spellings,
\* words and punctuation, each token a run of characters of one kind.
NumberValue == ("100" :> 100) @@ ("225" :> 225)

\* What `(kg|kgs|lbs?|pounds?)?` takes of a token that starts with a unit:
\* the alternatives are tried in order, so of "kgs" it takes "kg" and leaves
\* "s" to what follows; `lbs?` and `pounds?` take the s when it is there.
UnitMatch ==
    ("kg" :> [unit |-> "kg", rest |-> ""]) @@
    ("kgs" :> [unit |-> "kg", rest |-> "s"]) @@
    ("lb" :> [unit |-> "lb", rest |-> ""]) @@
    ("lbs" :> [unit |-> "lbs", rest |-> ""]) @@
    ("pound" :> [unit |-> "pound", rest |-> ""]) @@
    ("pounds" :> [unit |-> "pounds", rest |-> ""])

\* `\w`: every token but blanks and punctuation.
IsWordToken(t) == t \notin {" ", "&", "!"}

\* The keys are spelled as token sequences: 'c&j' is the three tokens c & j.
LIFT_TYPE_ALIASES ==
    (<<"squat">> :> "Squat") @@ (<<"sq">> :> "Squat") @@
    (<<"bench">> :> "Bench") @@ (<<"bp">> :> "Bench") @@
    (<<"deadlift">> :> "Deadlift") @@ (<<"dl">> :> "Deadlift") @@
    (<<"snatch">> :> "Snatch") @@ (<<"sn">> :> "Snatch") @@
    (<<"clean">> :> "Clean") @@ (<<"c", "&", "j">> :> "Clean") @@
    (<<"cj">> :> "Clean") @@ (<<"cleanandjerk">> :> "Clean") @@
    (<<"overhead">> :> "Overhead") @@ (<<"ohp">> :> "Overhead") @@
    (<<"press">> :> "Overhead")

\* `\s*` from position k: the first position at or after k that holds no blank.
SkipSpaces(text, k) ==
    LET S == {n \in k..Len(text) : text[n] # " "}
    IN  IF S = {} THEN Len(text) + 1 ELSE CHOOSE n \in S : \A m \in S : n <= m

\* `(\w+)?` from position k: the longest run of word tokens that starts there.
WordRun(text, k) ==
    LET S == {n \in k..Len(text) : ~IsWordToken(text[n])}
        end == IF S = {} THEN Len(text) + 1 ELSE CHOOSE n \in S : \A m \in S : n <= m
    IN  SubSeq(text, k, end - 1)

\* str.lower() of a run of tokens.
LowerAll(word) == [n \in DOMAIN word |-> Lower(word[n])]

\* round(weight * 0.453592, 2), in hundredths of a kilogram.
PoundsToKg(weight) == (weight * 453592 + 5000) \div 10000

\* The result None.
NoTag == [found |-> FALSE]

\* LIFT_TYPE_ALIASES.get(lift_raw.lower(), 'Snatch')
LiftType(lift_raw) ==
    IF LowerAll(lift_raw) \in DOMAIN LIFT_TYPE_ALIASES
       THEN LIFT_TYPE_ALIASES[LowerAll(lift_raw)]
       ELSE "Snatch"

\* re.search(pattern, text, re.IGNORECASE) and what is made of the groups;
\* weight_kg is in hundredths of a kilogram.
parse_t30g_message(text) ==
    LET n == Len(text)
        Matches(i) ==
            /\ Lower(text[i]) = "t30g"
            /\ i + 1 <= n
            /\ text[i + 1] = " "
            /\ SkipSpaces(text, i + 1) <= n
            /\ text[SkipSpaces(text, i + 1)] \in DOMAIN NumberValue
        starts == {i \in 1..n : Matches(i)}
    IN  IF starts = {} THEN NoTag
        ELSE LET i == CHOOSE x \in starts : \A y \in starts : x <= y
                 j == SkipSpaces(text, i + 1)
                 k == SkipSpaces(text, j + 1)
                 hasUnit == k <= n /\ text[k] \in DOMAIN UnitMatch
                 unit == IF hasUnit THEN UnitMatch[text[k]].unit ELSE "kg"
                 word == IF ~hasUnit THEN WordRun(text, k)
                         ELSE IF UnitMatch[text[k]].rest # ""
                              THEN <<UnitMatch[text[k]].rest>> \o WordRun(text, k + 1)
                              ELSE WordRun(text, SkipSpaces(text, k + 1))
                 lift_raw == IF word = <<>> THEN <<"snatch">> ELSE word
                 weight == NumberValue[text[j]]
             IN  [found |-> TRUE,
                  weight_kg |-> IF unit \in {"lb", "lbs"} \/ unit = "pounds"
                                   THEN PoundsToKg(weight)
                                   ELSE weight * 100,
                  lift_type |-> LiftType(lift_raw),
                  raw_text |-> text]

\* ------------------------------------------------- the active competition
\* The competition that is 'in_progress' once one is: the lift types of the
\* metadata in its description.
ActiveCompetition == [id |-> "c1", lifttypes |-> <<"Bench", "Squat">>]

\* get_active_competition_with_details: the first lift type of the metadata,
\* 'Squat' when it has none.
default_lift_type(competition) ==
    IF competition.lifttypes # <<>> THEN competition.lifttypes[1] ELSE "Squat"

\* The default weight, 90 kg, in hundredths of a kilogram.
DefaultWeightKg == 9000

\* process_email: `metadata`, what the tag gives or the competition defaults.
Metadata(body, competition) ==
    LET parsed == parse_t30g_message(body)
    IN  IF parsed.found
          THEN [weight_kg |-> parsed.weight_kg, lift_type |-> parsed.lift_type]
          ELSE [weight_kg |-> DefaultWeightKg,
                lift_type |-> default_lift_type(competition)]

\* ------------------------------------------------------------------ state
VARIABLES
    inbox,        \* the INBOX: a sequence of messages
    seen,         \* indexes of the messages flagged \Seen
    ledger,       \* rows of "EmailProcessingLog"
    nextId,       \* the next fresh uuid
    clock,        \* datetime.utcnow()
    active,       \* a competition has status in_progress
    users,        \* emails of the rows of "User"
    enrolled,     \* per user: rows of "UserCompetition" for the competition
    uploads,      \* per message: upload calls that succeeded (attempts created)
    pc,           \* per poller: the statement it is at
    batch,        \* per poller: the messages of its tick still to handle
    polls,        \* ticks started, all pollers together
    now,          \* per poller: `now` of its reserve call
    rid,          \* per poller: record_id of its reserve call
    res,          \* per poller: the result of its reserve call for the message,
                  \* and (prev) how the message's last process_email call had
                  \* ended when this one began
    ret,          \* per poller: the return statement process_email ended at
    nFinal,       \* per poller: _update_email_processing_status calls of the attempt
    nNotify,      \* per poller: send_confirmation_email calls of the attempt
    nUpload,      \* per poller: upload requests of the attempt
    uid,          \* per poller: user_id of the attempt (the user's email)
    outcome,      \* per message: how its last finished process_email call ended
    notified,     \* per poller: the last send_confirmation_email call of the
                  \* attempt: its `success` argument, and whether the mail left
    usercomp,     \* per poller: usercomp_id, what add_user_to_competition returned
    meta,         \* per poller: `metadata` of the attempt (weight_kg, lift_type)
    results,      \* per poller: `results` of its tick of check_inbox
    last_error,   \* stats['last_error']
    call          \* the last call of a function or route made from outside the
                  \* pollers: its name, its arguments and what it returned

\* What the pollers read and write.
pipeline == <<inbox, seen, ledger, nextId, clock, active, users, enrolled, uploads,
              pc, batch, polls, now, rid, res, ret, nFinal, nNotify, nUpload, uid,
              outcome, notified, usercomp, meta, results, last_error>>

vars == <<inbox, seen, ledger, nextId, clock, active, users, enrolled, uploads,
          pc, batch, polls, now, rid, res, ret, nFinal, nNotify, nUpload, uid,
          outcome, notified, usercomp, meta, results, last_error, call>>

\* Positions of the INBOX: the messages it starts with and one notification
\* per tick (a tick handles the one self-sent message at most once).
MaxInbox == 2 + MaxPolls

Statuses == {"processing", "succeeded", "failed"}

Row(id, mid, fp, status, error, created, updated) ==
    [id |-> id, message_id |-> mid, fingerprint |-> fp, status |-> status,
     error |-> error, created_at |-> created, updated_at |-> updated]

\* The message a poller is handling.
Cur(w) == inbox[Head(batch[w])]

\* No row read: what `found` holds before the SELECT.
NoRow == [status |-> "", updated_at |-> 0]
NoRes == [fp |-> <<>>, sp |-> FALSE, path |-> "none", at |-> 0, id |-> NoId,
          found |-> NoRow, prev |-> "none"]
\* `metadata` before process_email has set it.
NoMeta == [weight_kg |-> 0, lift_type |-> ""]
\* `results` as check_inbox creates it, and what a poller holds before its
\* first tick.
NewResults == [error |-> NoError, processed |-> 0, succeeded |-> 0, failed |-> 0,
               errors |-> <<>>]
NoResults == [NewResults EXCEPT !.error = "no tick"]
\* No send_confirmation_email call yet.
NoNote == [kind |-> "", sent |-> FALSE]
\* No call from outside the pollers yet.
NoCall == [op |-> "none"]

\* The ledger is a table that outlives the process (CREATE TABLE IF NOT
\* EXISTS): it starts empty or with one row left by an earlier run for the
\* message, in any status (explored for the one-message mailbox).
InitLedgers(box) ==
    IF Len(box) > 1 THEN {{}} ELSE
    {{}} \cup
    { {Row(1, MessageId(box[1]), Fingerprint(box[1]), s,
           IF s = "failed" THEN "Upload failed" ELSE NoError, 0, 0)} : s \in Statuses }

\* The state when the pollers start, for the mailboxes `boxes`.
InitFrom(boxes) ==
    /\ inbox \in boxes
    /\ seen = {}
    /\ ledger \in InitLedgers(inbox)
    /\ nextId = 2
    /\ clock = 0
    /\ active = FALSE
    /\ users = {}
    /\ enrolled = [e \in Emails |-> 0]
    /\ uploads = [i \in 1..MaxInbox |-> 0]
    /\ pc = [w \in Workers |-> "idle"]
    /\ batch = [w \in Workers |-> <<>>]
    /\ polls = 0
    /\ now = [w \in Workers |-> 0]
    /\ rid = [w \in Workers |-> NoId]
    /\ res = [w \in Workers |-> NoRes]
    /\ ret = [w \in Workers |-> ""]
    /\ nFinal = [w \in Workers |-> 0]
    /\ nNotify = [w \in Workers |-> 0]
    /\ nUpload = [w \in Workers |-> 0]
    /\ uid = [w \in Workers |-> ""]
    /\ outcome = [i \in 1..MaxInbox |-> "none"]
    /\ notified = [w \in Workers |-> NoNote]
    /\ usercomp = [w \in Workers |-> NoId]
    /\ meta = [w \in Workers |-> NoMeta]
    /\ results = [w \in Workers |-> NoResults]
    /\ last_error = NoError
    /\ call = NoCall

Init == InitFrom(Mailboxes)

\* ------------------------------------------------------ the ledger's SQL
\* SELECT ... WHERE fingerprint = :fingerprint LIMIT 1
RowsOf(L, fp) == {r \in L : r.fingerprint = fp}

\* A plain INSERT, with no ON CONFLICT clause and no unique index behind it.
InsertAlways(L, row) == L \cup {row}

\* INSERT ... ON CONFLICT (fingerprint) DO NOTHING RETURNING id: the table
\* after the statement.  A row is returned exactly when the table changed.
InsertOnConflict(L, row) ==
    IF RowsOf(L, row.fingerprint) # {} THEN L ELSE L \cup {row}

\* The UNIQUE constraint on message_id, which ON CONFLICT (fingerprint) does
\* not arbitrate: the INSERT raises when another fingerprint's row holds the
\* same non-null message_id.
MessageIdViolation(L, row) ==
    /\ RowsOf(L, row.fingerprint) = {}
    /\ row.message_id # NoMid
    /\ \E r \in L : r.message_id = row.message_id

\* The window test without the test of the status.
StillInFlightAnyStatus(row, t) == t - row.updated_at < DedupeWindow

\* The window test with <= for <.
StillInFlightInclusive(row, t) ==
    row.status = "processing" /\ t - row.updated_at <= DedupeWindow

\* A row found `processing` whose age is below the dedupe window.
StillInFlight(row, t) ==
    row.status = "processing" /\ t - row.updated_at < DedupeWindow

\* The UPDATE of the retry with status = 'succeeded' for 'processing'.
ReclaimRowSucceeded(L, id, t) ==
    { IF r.id = id
        THEN [r EXCEPT !.status = "succeeded", !.error = NoError, !.updated_at = t]
        ELSE r : r \in L }

\* UPDATE ... SET status = 'processing', error = NULL, updated_at = :now
\* WHERE id = :id
ReclaimRow(L, id, t) ==
    { IF r.id = id
        THEN [r EXCEPT !.status = "processing", !.error = NoError, !.updated_at = t]
        ELSE r : r \in L }

\* UPDATE ... SET status = :status, error = :error, updated_at = :now
\* WHERE id = :id, as it would run with get_db_connection bound.
UpdateRow(L, id, status, error, t) ==
    { IF r.id = id
        THEN [r EXCEPT !.status = status, !.error = error, !.updated_at = t]
        ELSE r : r \in L }

\* _update_email_processing_status: the table after the call.  The function
\* calls get_db_connection(), a name that is bound only inside other
\* functions (their local imports) and not in the module: the call raises
\* NameError, `except Exception` logs it, and the UPDATE is never sent.
_update_email_processing_status(L, id, status, error, t) == L

\* ---------------------------------------------------------------- actions
Unseen == SelectSeq([i \in 1..Len(inbox) |-> i], LAMBDA i : i \notin seen)

\* A loop that an exception of the tick ends.
LoopStops(how) == IF how = "error" THEN "stopped" ELSE "idle"

\* run_email_processor: where the loop is once a tick has ended at `how`
\* ("error": an exception inside check_inbox; "done": with its results): in
\* time.sleep(EMAIL_POLL_INTERVAL), from which the next tick starts.
LoopAfter(how) == "idle"

\* check_inbox, up to the search: `results` is created, and the tick's batch
\* is the unseen messages.  imapOk = FALSE is the connection, the login or
\* the search raising: the outer `except` records the error and the tick is
\* over.
CheckInbox(w) ==
    /\ pc[w] = "idle"
    /\ polls < MaxPolls
    /\ polls' = polls + 1
    /\ \E imapOk \in BOOLEAN :
         IF imapOk
           THEN /\ batch' = [batch EXCEPT ![w] = Unseen]
                /\ pc' = [pc EXCEPT ![w] = IF Unseen = <<>> THEN LoopAfter("done")
                                                             ELSE "fetch"]
                /\ results' = [results EXCEPT ![w] = NewResults]
                /\ UNCHANGED last_error
           ELSE /\ batch' = [batch EXCEPT ![w] = <<>>]
                /\ pc' = [pc EXCEPT ![w] = LoopAfter("error")]
                /\ results' = [results EXCEPT ![w] =
                                  [NewResults EXCEPT !.error = "Error checking inbox"]]
                /\ last_error' = "Error checking inbox"
    /\ UNCHANGED <<inbox, seen, ledger, nextId, clock, active, users, enrolled,
                   uploads, now, rid, res, ret, nFinal, nNotify, nUpload, uid, outcome,
                   notified>>
    /\ UNCHANGED <<usercomp, call, meta>>

\* The success returns with "Skipped duplicate email" returned as a failure.
SuccessReturnsNoDuplicate == {"guard", "uploaded"}

\* The return statements of process_email that return success = TRUE.
SuccessReturns == {"guard", "duplicate", "uploaded"}

\* `success` as check_inbox reads it.
Success(w) == ret[w] \in SuccessReturns

\* process_email returns (success, message) to check_inbox at the return
\* statement `how`, which fixes `success`.
Return(w, how) ==
    /\ ret' = [ret EXCEPT ![w] = how]
    /\ pc' = [pc EXCEPT ![w] = "store"]
    /\ outcome' = [outcome EXCEPT ![Head(batch[w])] = how]

\* process_email raises: the exception reaches the `except` of check_inbox's
\* loop body, which counts a failure and goes on with the batch.
Raise(w) == Return(w, "raised")

\* mail.fetch(BODY.PEEK[]) and the head of process_email: the guard, the
\* body, the fingerprint, and `now` of _reserve_email_processing.
Fetch(w) ==
    /\ pc[w] = "fetch"
    /\ IF ShouldSkip(Cur(w))
         THEN /\ Return(w, "guard")
              /\ UNCHANGED now
         ELSE IF Cur(w).raises = "body"
           THEN /\ Raise(w)
                /\ UNCHANGED now
         ELSE /\ now' = [now EXCEPT ![w] = clock]
              /\ pc' = [pc EXCEPT ![w] = "insert"]
              /\ UNCHANGED <<ret, outcome>>
    /\ res' = [res EXCEPT ![w] = [NoRes EXCEPT !.prev = outcome[Head(batch[w])]]]
    /\ UNCHANGED <<inbox, seen, ledger, nextId, clock, active, users, enrolled,
                   uploads, batch, polls, rid, nFinal, nNotify, nUpload, uid, notified>>
    /\ UNCHANGED <<usercomp, call, meta, results, last_error>>

\* What reserve returns to process_email, and where process_email goes:
\* should_process = FALSE is "Skipped duplicate email", a success.  `found`
\* is the row the SELECT read (NoRow when the call did not get that far).
Returned(w, sp, path, id, found) ==
    /\ res' = [res EXCEPT ![w] = [fp |-> Fingerprint(Cur(w)), sp |-> sp,
                                  path |-> path, at |-> now[w], id |-> id,
                                  found |-> found, prev |-> res[w].prev]]
    /\ rid' = [rid EXCEPT ![w] = id]
    /\ IF sp
         THEN /\ pc' = [pc EXCEPT ![w] = "competition"]
              /\ UNCHANGED <<ret, outcome>>
         ELSE Return(w, "duplicate")

\* A session that commits each statement as it is executed.
SessionAutocommit(L, written) == written

\* _reserve_email_processing: `finally: session.close()` after a statement
\* or its commit raised: the table `written` by the open transaction is
\* discarded and the table is L, as committed before.
SessionClosed(L, written) == L

\* An `except` that lets the message be processed.
ReserveExceptProcess == [sp |-> TRUE, id |-> NoId]

\* _reserve_email_processing: what its `except Exception` returns.
ReserveExcept == [sp |-> FALSE, id |-> NoId]

\* _reserve_email_processing: the INSERT and its commit.  dbOk = FALSE is the
\* store raising (no connection, a failed statement): path "error".  The
\* INSERT also raises on the UNIQUE constraint of message_id: path "conflict".
Insert(w) ==
    /\ pc[w] = "insert"
    /\ \E dbOk \in BOOLEAN :
         LET row == Row(nextId, MessageId(Cur(w)), Fingerprint(Cur(w)),
                        "processing", NoError, now[w], now[w])
             after == InsertOnConflict(ledger, row)
         IN  IF ~dbOk
               THEN /\ Returned(w, ReserveExcept.sp, "error", ReserveExcept.id, NoRow)
                    /\ UNCHANGED <<ledger, nextId>>
             ELSE IF MessageIdViolation(ledger, row)
               THEN /\ Returned(w, ReserveExcept.sp, "conflict", ReserveExcept.id, NoRow)
                    /\ UNCHANGED <<ledger, nextId>>
               ELSE IF after # ledger
                 THEN /\ ledger' = after
                      /\ nextId' = nextId + 1
                      /\ Returned(w, TRUE, "inserted", row.id, NoRow)
                 ELSE /\ pc' = [pc EXCEPT ![w] = "select"]
                      /\ UNCHANGED <<ledger, nextId, res, rid, ret, outcome>>
    /\ UNCHANGED <<inbox, seen, clock, active, users, enrolled, uploads,
                   batch, polls, now, nFinal, nNotify, nUpload, uid, notified>>
    /\ UNCHANGED <<usercomp, call, meta, results, last_error>>

\* _reserve_email_processing: the SELECT of the existing row and the decision.
\* dbOk = FALSE is the SELECT raising.
Select(w) ==
    /\ pc[w] = "select"
    /\ \E dbOk \in BOOLEAN :
       LET rows == RowsOf(ledger, Fingerprint(Cur(w)))
       IN  IF ~dbOk
             THEN Returned(w, ReserveExcept.sp, "error", ReserveExcept.id, NoRow)
           ELSE IF rows = {}
             THEN Returned(w, FALSE, "norow", NoId, NoRow)
             ELSE \E row \in rows :
                    LET found == [status |-> row.status, updated_at |-> row.updated_at]
                    IN  IF row.status = "succeeded"
                          THEN Returned(w, FALSE, "succeeded", row.id, found)
                        ELSE IF StillInFlight(row, now[w])
                          THEN Returned(w, FALSE, "inflight", row.id, found)
                        ELSE /\ pc' = [pc EXCEPT ![w] = "update"]
                             /\ rid' = [rid EXCEPT ![w] = row.id]
                             /\ res' = [res EXCEPT ![w] =
                                    [fp |-> row.fingerprint, sp |-> FALSE,
                                     path |-> "pending", at |-> now[w],
                                     id |-> row.id, found |-> found,
                                     prev |-> res[w].prev]]
                             /\ UNCHANGED <<ret, outcome>>
    /\ UNCHANGED <<inbox, seen, ledger, nextId, clock, active, users, enrolled,
                   uploads, batch, polls, now, nFinal, nNotify, nUpload, uid, notified>>
    /\ UNCHANGED <<usercomp, call, meta, results, last_error>>

\* _reserve_email_processing: the UPDATE that flips the row back to
\* processing, and its commit.  dbOk = FALSE is the UPDATE or its commit
\* raising: nothing is committed and the session is closed.
Update(w) ==
    /\ pc[w] = "update"
    /\ \E dbOk \in BOOLEAN :
         IF dbOk
           THEN /\ ledger' = ReclaimRow(ledger, rid[w], now[w])
                /\ Returned(w, TRUE, "reclaimed", rid[w], res[w].found)
           ELSE /\ ledger' = SessionClosed(ledger, ReclaimRow(ledger, rid[w], now[w]))
                /\ Returned(w, ReserveExcept.sp, "error", ReserveExcept.id, NoRow)
    /\ UNCHANGED <<inbox, seen, nextId, clock, active, users, enrolled, uploads,
                   batch, polls, now, nFinal, nNotify, nUpload, uid, notified>>
    /\ UNCHANGED <<usercomp, call, meta, results, last_error>>

\* send_confirmation_email(forwarder_email, success, ...) is called once more
\* in this attempt.  sent = FALSE is the mail not leaving (confirmations
\* disabled, credentials missing, SMTP raising): the function returns all the
\* same.  A mail that leaves for the mailbox's own address arrives in the INBOX.
Notify(w, success) ==
    /\ nNotify' = [nNotify EXCEPT ![w] = @ + 1]
    /\ \E sent \in BOOLEAN :
         /\ notified' = [notified EXCEPT ![w] =
                [kind |-> IF success THEN "ok" ELSE "fail", sent |-> sent]]
         /\ inbox' = IF sent /\ Cur(w).from = EMAIL_USERNAME
                       THEN Append(inbox, send_confirmation_email(success))
                       ELSE inbox

\* _update_email_processing_status(record_id, status, error) is called.
Finalize(w, status, error) ==
    /\ nFinal' = [nFinal EXCEPT ![w] = @ + 1]
    /\ ledger' = _update_email_processing_status(ledger, rid[w], status, error, clock)

\* get_active_competition_with_details, then the tag and the attachments.
Competition(w) ==
    /\ pc[w] = "competition"
    /\ IF ~active
         THEN /\ Notify(w, FALSE)
              /\ Return(w, "no competition")
              /\ UNCHANGED <<ledger, nFinal>>
         ELSE IF Cur(w).raises = "attachments"
           THEN /\ Raise(w)
                /\ UNCHANGED <<ledger, nFinal, nNotify, notified, inbox>>
         ELSE IF Cur(w).video = 0
           THEN /\ Notify(w, FALSE)
                /\ Finalize(w, "failed", "No video attachment found")
                /\ Return(w, "no attachment")
           ELSE /\ pc' = [pc EXCEPT ![w] = "lookup"]
                /\ UNCHANGED <<ledger, nFinal, nNotify, notified, inbox, ret, outcome>>
    /\ meta' = [meta EXCEPT ![w] = IF active THEN Metadata(Cur(w).body, ActiveCompetition)
                                              ELSE NoMeta]
    /\ UNCHANGED <<seen, nextId, clock, active, users, enrolled, uploads,
                   batch, polls, now, rid, res, nUpload, uid>>
    /\ UNCHANGED <<usercomp, call, results, last_error>>

\* lookup_user_by_email for the original sender, then for the forwarder.
Lookup(w) ==
    /\ pc[w] = "lookup"
    /\ LET user_email == extract_original_sender(Cur(w))
           found == IF user_email \in users THEN user_email
                    ELSE IF Cur(w).from \in users THEN Cur(w).from ELSE ""
       IN  /\ uid' = [uid EXCEPT ![w] = found]
           /\ pc' = [pc EXCEPT ![w] = IF found # "" THEN "upload" ELSE "create"]
    /\ UNCHANGED <<inbox, seen, ledger, nextId, clock, active, users, enrolled,
                   uploads, batch, polls, now, rid, res, ret, nFinal, nNotify, nUpload,
                   outcome, notified>>
    /\ UNCHANGED <<usercomp, call, meta, results, last_error>>

\* create_user_from_email: the INSERT into "User" succeeds when the store
\* answers and no row holds the email; otherwise it returns None.
CanCreate(U, e, dbOk) == dbOk /\ e \notin U

\* create_user_from_email for the original sender, then for the forwarder;
\* when both fail the attempt ends without a call of
\* _update_email_processing_status.
Create(w) ==
    /\ pc[w] = "create"
    /\ \E dbOk1 \in BOOLEAN, dbOk2 \in BOOLEAN :
         LET user_email == extract_original_sender(Cur(w))
             made == IF CanCreate(users, user_email, dbOk1) THEN user_email
                     ELSE IF CanCreate(users, Cur(w).from, dbOk2) THEN Cur(w).from
                     ELSE ""
         IN  IF made = ""
               THEN /\ Notify(w, FALSE)
                    /\ Return(w, "no user")
                    /\ UNCHANGED <<users, uid>>
               ELSE /\ users' = users \cup {made}
                    /\ uid' = [uid EXCEPT ![w] = made]
                    /\ pc' = [pc EXCEPT ![w] = "enrollSelect"]
                    /\ UNCHANGED <<nNotify, notified, inbox, ret, outcome>>
    /\ UNCHANGED <<seen, ledger, nextId, clock, active, enrolled, uploads,
                   batch, polls, now, rid, res, nFinal, nUpload>>
    /\ UNCHANGED <<usercomp, call, meta, results, last_error>>

\* add_user_to_competition without the test of `existing`.
EnrollSelectNoCheck(w) ==
    /\ pc[w] = "enrollSelect"
    /\ pc' = [pc EXCEPT ![w] = "enrollInsert"]
    /\ UNCHANGED <<inbox, seen, ledger, nextId, clock, active, users, enrolled, uploads,
                   batch, polls, now, rid, res, ret, nFinal, nNotify, nUpload, uid,
                   outcome, notified, usercomp, call, meta, results, last_error>>

\* add_user_to_competition: the SELECT of an existing link (the rows of a
\* user are numbered from 1; fetchone() returns one of them).
EnrollSelect(w) ==
    /\ pc[w] = "enrollSelect"
    /\ pc' = [pc EXCEPT ![w] = IF enrolled[uid[w]] > 0 THEN "upload" ELSE "enrollInsert"]
    /\ IF enrolled[uid[w]] > 0
         THEN \E id \in 1..enrolled[uid[w]] : usercomp' = [usercomp EXCEPT ![w] = id]
         ELSE usercomp' = [usercomp EXCEPT ![w] = NoId]
    /\ UNCHANGED <<inbox, seen, ledger, nextId, clock, active, users, enrolled, uploads,
                   batch, polls, now, rid, res, ret, nFinal, nNotify, nUpload, uid,
                   outcome, notified>>
    /\ UNCHANGED <<call, meta, results, last_error>>

\* add_user_to_competition: the INSERT of the link; a failure is logged and
\* the upload goes on.
EnrollInsert(w) ==
    /\ pc[w] = "enrollInsert"
    /\ \E dbOk \in BOOLEAN :
         /\ enrolled' = IF dbOk THEN [enrolled EXCEPT ![uid[w]] = @ + 1] ELSE enrolled
         /\ usercomp' = [usercomp EXCEPT ![w] = IF dbOk THEN enrolled[uid[w]] + 1 ELSE NoId]
    /\ pc' = [pc EXCEPT ![w] = "upload"]
    /\ UNCHANGED <<inbox, seen, ledger, nextId, clock, active, users, uploads,
                   batch, polls, now, rid, res, ret, nFinal, nNotify, nUpload, uid,
                   outcome, notified>>
    /\ UNCHANGED <<call, meta, results, last_error>>

\* upload_video_to_backend (one POST /upload), then the notification and the
\* call of _update_email_processing_status.
Upload(w) ==
    /\ pc[w] = "upload"
    /\ nUpload' = [nUpload EXCEPT ![w] = @ + 1]
    /\ \E success \in BOOLEAN :
         IF success
           THEN /\ uploads' = [uploads EXCEPT ![Head(batch[w])] = @ + 1]
                /\ Notify(w, TRUE)
                /\ Finalize(w, "succeeded", NoError)
                /\ Return(w, "uploaded")
           ELSE /\ Notify(w, FALSE)
                /\ Finalize(w, "failed", "Upload failed")
                /\ Return(w, "upload failed")
                /\ UNCHANGED uploads
    /\ UNCHANGED <<seen, nextId, clock, active, users, enrolled,
                   batch, polls, now, rid, res, uid>>
    /\ UNCHANGED <<usercomp, call, meta, results, last_error>>

\* mail.store(+FLAGS \Seen) outside the `if success`.
MarkSeenAlways(S, i, success) == S \cup {i}

\* check_inbox after process_email: the message is flagged \Seen when
\* `success`, and the loop goes to the next message of the batch.
MarkSeen(S, i, success) == IF success THEN S \cup {i} ELSE S

\* A loop whose `except` is around the loop: an exception ends the tick.
RestAbort(b, how) == IF how = "raised" THEN <<>> ELSE Tail(b)

\* The messages the `for` loop still has to handle after the one that ended
\* at `how`: the `try` is inside the loop, so the rest of the batch each time.
Rest(b, how) == Tail(b)

\* check_inbox after process_email: `results` once the message that ended
\* at `how` is counted.  An exception skips the statements that follow the
\* call and is counted in the `except` of the loop body.
CountMessage(r, how) ==
    IF how = "raised"
      THEN [r EXCEPT !.failed = @ + 1, !.errors = Append(@, how)]
    ELSE IF how \in SuccessReturns
      THEN [r EXCEPT !.processed = @ + 1, !.succeeded = @ + 1]
    ELSE [r EXCEPT !.processed = @ + 1, !.failed = @ + 1, !.errors = Append(@, how)]

Store(w) ==
    /\ pc[w] = "store"
    /\ seen' = MarkSeen(seen, Head(batch[w]), Success(w))
    /\ LET rest == Rest(batch[w], ret[w])
       IN  /\ batch' = [batch EXCEPT ![w] = rest]
           /\ pc' = [pc EXCEPT ![w] = IF rest = <<>> THEN LoopAfter("done") ELSE "fetch"]
    /\ now' = [now EXCEPT ![w] = 0]
    /\ rid' = [rid EXCEPT ![w] = NoId]
    /\ ret' = [ret EXCEPT ![w] = ""]
    /\ nFinal' = [nFinal EXCEPT ![w] = 0]
    /\ nNotify' = [nNotify EXCEPT ![w] = 0]
    /\ nUpload' = [nUpload EXCEPT ![w] = 0]
    /\ uid' = [uid EXCEPT ![w] = ""]
    /\ res' = [res EXCEPT ![w] = NoRes]
    /\ notified' = [notified EXCEPT ![w] = NoNote]
    /\ usercomp' = [usercomp EXCEPT ![w] = NoId]
    /\ meta' = [meta EXCEPT ![w] = NoMeta]
    /\ results' = [results EXCEPT ![w] = CountMessage(@, ret[w])]
    /\ UNCHANGED <<inbox, ledger, nextId, clock, active, users, enrolled, uploads,
                   polls, outcome>>
    /\ UNCHANGED <<call, last_error>>

\* Time passes.
Tick ==
    /\ clock < MaxClock
    /\ clock' = clock + 1
    /\ UNCHANGED <<inbox, seen, ledger, nextId, active, users, enrolled, uploads,
                   pc, batch, polls, now, rid, res, ret, nFinal, nNotify, nUpload, uid,
                   outcome, notified>>
    /\ UNCHANGED <<usercomp, call, meta, results, last_error>>

\* POST /admin/activate-competition/<id>: the competition becomes in_progress.
Activate ==
    /\ ~active
    /\ active' = TRUE
    /\ UNCHANGED <<inbox, seen, ledger, nextId, clock, users, enrolled, uploads,
                   pc, batch, polls, now, rid, res, ret, nFinal, nNotify, nUpload, uid,
                   outcome, notified>>
    /\ UNCHANGED <<usercomp, call, meta, results, last_error>>

Next ==
    \/ \E w \in Workers :
         \/ CheckInbox(w)
         \/ Fetch(w)
         \/ Insert(w)
         \/ Select(w)
         \/ Update(w)
         \/ Competition(w)
         \/ Lookup(w)
         \/ Create(w)
         \/ EnrollSelect(w)
         \/ EnrollInsert(w)
         \/ Upload(w)
         \/ Store(w)
    \/ Tick
    \/ Activate

Spec == Init /\ [][Next]_vars

\* ------------------------------------------------- the guard and the reserve
\* The pollers up to the return of _reserve_email_processing, for one-message
\* mailboxes that hold each of GuardMessages.
GuardInit == InitFrom({<<m>> : m \in GuardMessages})

GuardNext ==
    \E w \in Workers :
         \/ CheckInbox(w)
         \/ Fetch(w)
         \/ Insert(w)
         \/ Select(w)
         \/ Update(w)
         \/ Store(w)

GuardSpec == GuardInit /\ [][GuardNext]_vars

\* ------------------------------------------------------ enrolling a user
\* add_user_to_competition called again and again, by callers that may
\* overlap.  pc = "upload" is the call returned, with usercomp its result.
EnrollInit == InitFrom({<<LiftVideo>>})

\* A caller calls add_user_to_competition(user_id, competition_id).
EnrollCall(w) ==
    /\ pc[w] \in {"idle", "upload"}
    /\ \E u \in Emails : uid' = [uid EXCEPT ![w] = u]
    /\ pc' = [pc EXCEPT ![w] = "enrollSelect"]
    /\ usercomp' = [usercomp EXCEPT ![w] = NoId]
    /\ UNCHANGED <<inbox, seen, ledger, nextId, clock, active, users, enrolled, uploads,
                   batch, polls, now, rid, res, ret, nFinal, nNotify, nUpload,
                   outcome, notified, call, meta, results, last_error>>

EnrollNext ==
    \E w \in Workers :
         \/ EnrollCall(w)
         \/ EnrollSelect(w)
         \/ EnrollInsert(w)

EnrollSpec == EnrollInit /\ [][EnrollNext]_vars

\* ------------------------------------------------------ a poller that stops
\* The process of a poller is killed after _reserve_email_processing has
\* returned should_process = TRUE and before process_email returns: whatever
\* it held in memory is gone, the ledger row and the mailbox flags stay.  A
\* restarted process polls again as any poller does.
Crash(w) ==
    /\ pc[w] \in {"competition", "lookup", "create", "enrollSelect", "enrollInsert",
                  "upload"}
    /\ pc' = [pc EXCEPT ![w] = "idle"]
    /\ batch' = [batch EXCEPT ![w] = <<>>]
    /\ outcome' = [outcome EXCEPT ![Head(batch[w])] = "crashed"]
    /\ now' = [now EXCEPT ![w] = 0]
    /\ rid' = [rid EXCEPT ![w] = NoId]
    /\ ret' = [ret EXCEPT ![w] = ""]
    /\ nFinal' = [nFinal EXCEPT ![w] = 0]
    /\ nNotify' = [nNotify EXCEPT ![w] = 0]
    /\ nUpload' = [nUpload EXCEPT ![w] = 0]
    /\ uid' = [uid EXCEPT ![w] = ""]
    /\ res' = [res EXCEPT ![w] = NoRes]
    /\ notified' = [notified EXCEPT ![w] = NoNote]
    /\ usercomp' = [usercomp EXCEPT ![w] = NoId]
    /\ meta' = [meta EXCEPT ![w] = NoMeta]
    /\ results' = [results EXCEPT ![w] = NoResults]
    /\ UNCHANGED <<inbox, seen, ledger, nextId, clock, active, users, enrolled, uploads,
                   polls, call, last_error>>

CrashNext ==
    \/ Next
    \/ \E w \in Workers : Crash(w)

CrashSpec == Init /\ [][CrashNext]_vars

\* The texts the parser is run on.  A unit spelled without its s is not
\* directly followed by a word that starts with s: those characters are the
\* text spelled with the unit's plural.
Texts ==
    {pre \o tag \o g1 \o num \o g2 \o unit \o g3 \o word :
        pre \in {<<>>, <<"PR", "!", " ">>},
        tag \in {<<>>, <<"t30g">>, <<"T30G">>},
        g1 \in {<<>>, <<" ">>},
        num \in {<<>>, <<"100">>, <<"225">>},
        g2 \in {<<>>, <<" ">>},
        unit \in {<<>>} \cup {<<u>> : u \in DOMAIN UnitMatch},
        g3 \in {<<>>, <<" ">>},
        word \in {<<>>, <<"sq">>, <<"squat">>, <<"DL">>, <<"zz">>, <<"c", "&", "j">>}}
    \ {t \in Seq({"PR", "!", " ", "t30g", "T30G", "100", "225", "lb", "pound", "sq", "squat"}) :
           \E n \in 1..(Len(t) - 1) : t[n] \in {"lb", "pound"} /\ t[n + 1] \in {"sq", "squat"}}

\* ----------------------------------------------------------- POST /email/test
TestRequests == {[hasBody |-> FALSE, body |-> <<>>]} \cup
                {[hasBody |-> TRUE, body |-> t] : t \in Texts}

\* test_parse: the response to a request.
test_parse(req) ==
    IF ~req.hasBody
       THEN [status |-> 400, success |-> FALSE, parsed |-> NoTag, input |-> <<>>]
       ELSE [status |-> 200,
             success |-> parse_t30g_message(req.body).found,
             parsed |-> parse_t30g_message(req.body),
             input |-> req.body]

\* -------------------------------------------------------------- POST /upload
ALLOWED_EXTENSIONS == {"mov", "mp4", "avi", "mkv"}

\* filename.rsplit('.', 1)[1].lower() of the file names sent; "" without a dot.
Extension(filename) ==
    CASE filename = "lift.mp4" -> "mp4"
      [] filename = "lift.MOV" -> "mov"
      [] filename = "lift.txt" -> "txt"
      [] OTHER -> ""

allowed_file(filename) == Extension(filename) \in ALLOWED_EXTENSIONS

\* A request: the name of the file part ("none" without a 'video' part) and
\* whether the bucket and the store take what the handler sends them.
UploadRequests ==
    [video : {"none", "", "lift", "lift.txt", "lift.mp4", "lift.MOV"},
     storage : BOOLEAN, conn : BOOLEAN, linkDb : BOOLEAN, attemptDb : BOOLEAN]

\* The rows of the user for the competition before the request.
UploadTables == [links : 0..1, attempts : 0..1]

\* The handler with the Attempt row written before the blob is stored.
UploadRecordFirst(req, db) ==
    IF req.video = "none" \/ req.video = "" \/ ~allowed_file(req.video)
       THEN [status |-> 400, stored |-> FALSE, links |-> db.links, attempts |-> db.attempts]
       ELSE IF ~req.storage
               THEN [status |-> 500, stored |-> FALSE, links |-> db.links,
                     attempts |-> db.attempts + 1]
               ELSE [status |-> 200, stored |-> TRUE,
                     links |-> IF db.links = 0 THEN 1 ELSE db.links,
                     attempts |-> db.attempts + 1]

\* upload_video with user_id given: the status of the response, whether the
\* blob was stored, and the rows of "UserCompetition" and "Attempt" after it.
upload_video(req, db) ==
    IF req.video = "none" \/ req.video = "" \/ ~allowed_file(req.video)
       THEN [status |-> 400, stored |-> FALSE, links |-> db.links, attempts |-> db.attempts]
    ELSE IF ~req.storage
       THEN [status |-> 500, stored |-> FALSE, links |-> db.links, attempts |-> db.attempts]
    ELSE IF ~req.conn \/ ~req.linkDb
       THEN [status |-> 500, stored |-> TRUE, links |-> db.links, attempts |-> db.attempts]
    ELSE IF ~req.attemptDb
       THEN [status |-> 500, stored |-> TRUE,
             links |-> IF db.links = 0 THEN 1 ELSE db.links,
             attempts |-> db.attempts]
    ELSE [status |-> 200, stored |-> TRUE,
          links |-> IF db.links = 0 THEN 1 ELSE db.links,
          attempts |-> db.attempts + 1]

\* ------------------------------------------------------------ the text body
\* A MIME part as get_email_body reads it: its content type, whether its
\* Content-Disposition holds 'attachment', and its decoded payload.
Part(type, attached, payload) == [type |-> type, attached |-> attached, payload |-> payload]

MimeParts ==
    {Part("text/plain", a, t) : a \in BOOLEAN, t \in {<<"t30g", " ", "100">>, <<"sig">>}} \cup
    {Part("text/html", a, <<"<p>", "t30g", " ", " ", "225", "</p>">>) : a \in BOOLEAN} \cup
    {Part("video/mp4", TRUE, <<"mp4">>)}

\* The messages explored: multipart messages of up to MaxParts parts (the
\* parts msg.walk() yields below the container) and single-part messages.
MimeMessages ==
    {[multipart |-> TRUE, parts |-> ps] : ps \in UNION {[1..n -> MimeParts] : n \in 1..MaxParts}} \cup
    {[multipart |-> FALSE, parts |-> <<p>>] : p \in {q \in MimeParts : ~q.attached}}

\* re.sub(r'<[^>]+>', ' ', html): every tag becomes a blank.
StripTags(html) ==
    [n \in DOMAIN html |-> IF html[n] \in {"<p>", "</p>"} THEN " " ELSE html[n]]

\* re.sub(r'\s+', ' ', body): a run of blanks becomes one blank.
CollapseSpaces(text) ==
    LET keep == {n \in DOMAIN text : ~(text[n] = " " /\ n > 1 /\ text[n - 1] = " ")}
        F[n \in 0..Len(text)] ==
            IF n = 0 THEN <<>>
            ELSE IF n \in keep THEN Append(F[n - 1], text[n]) ELSE F[n - 1]
    IN  F[Len(text)]

\* The loop over msg.walk(): `body` after the first n parts.
BodyAfter(parts, n) ==
    LET F[k \in 0..n] ==
            IF k = 0 THEN <<>>
            ELSE LET part == parts[k]
                     body == F[k - 1]
                 IN  IF part.attached THEN body
                     ELSE IF part.type = "text/plain" THEN body \o part.payload
                     ELSE IF part.type = "text/html" /\ body = <<>>
                             THEN CollapseSpaces(StripTags(part.payload))
                     ELSE body
    IN  F[n]

get_email_body(msg) ==
    IF msg.multipart THEN BodyAfter(msg.parts, Len(msg.parts))
    ELSE msg.parts[1].payload

\* ------------------------------------------------------ calls from outside
\* One call is followed from each state the specification starts in.
\* The inputs of _compute_email_fingerprint: bodies of up to MaxBody tokens.
Bodies == UNION {[1..n -> {"x", "y"}] : n \in 0..MaxBody}

FpInputs == [from : Emails, subject : {"lift", "pr"}, date : {"d1", "d2"}, body : Bodies]

ApiInit == InitFrom({<<LiftVideo>>})

\* _compute_email_fingerprint applied to two inputs.
Fingerprints ==
    /\ call.op = "none"
    /\ \E a, b \in FpInputs :
         call' = [op |-> "fingerprint", in |-> <<a, b>>,
                  out |-> <<_compute_email_fingerprint(a.from, a.subject, a.date, a.body),
                            _compute_email_fingerprint(b.from, b.subject, b.date, b.body)>>]
    /\ UNCHANGED pipeline

\* parse_t30g_message applied to a text.
ParseTag ==
    /\ call.op = "none"
    /\ \E text \in Texts :
         call' = [op |-> "parse", in |-> text, out |-> parse_t30g_message(text)]
    /\ UNCHANGED pipeline

\* POST /email/test with the reservation of process_email run on the body.
TestParseReserving ==
    /\ call.op = "none"
    /\ \E req \in TestRequests :
         call' = [op |-> "test", in |-> req, out |-> test_parse(req)]
    /\ ledger' = InsertOnConflict(ledger, Row(nextId, NoMid, <<"test">>, "processing",
                                              NoError, clock, clock))
    /\ nextId' = nextId + 1
    /\ UNCHANGED <<inbox, seen, clock, active, users, enrolled, uploads, pc, batch,
                   polls, now, rid, res, ret, nFinal, nNotify, nUpload, uid, outcome,
                   notified, usercomp, meta, results, last_error>>

\* POST /email/test
TestParse ==
    /\ call.op = "none"
    /\ \E req \in TestRequests :
         call' = [op |-> "test", in |-> req, out |-> test_parse(req)]
    /\ UNCHANGED pipeline

\* get_email_body applied to a message.
ExtractBody ==
    /\ call.op = "none"
    /\ \E msg \in MimeMessages :
         call' = [op |-> "body", in |-> msg, out |-> get_email_body(msg)]
    /\ UNCHANGED pipeline

\* POST /upload
PostUpload ==
    /\ call.op = "none"
    /\ \E req \in UploadRequests, db \in UploadTables :
         call' = [op |-> "upload", in |-> <<req, db>>, out |-> upload_video(req, db)]
    /\ UNCHANGED pipeline

ApiNext ==
    \/ Fingerprints
    \/ ParseTag
    \/ TestParse
    \/ ExtractBody
    \/ PostUpload

ApiSpec == ApiInit /\ [][ApiNext]_vars

\* ================================================================ claims
\* The reserve call of poller w has returned (to process_email).
Returned1(w) == res[w].path \notin {"none", "pending"}

\* Pollers a and b have each finished a reserve call for the same fingerprint.
SameFingerprint(a, b) ==
    a # b /\ Returned1(a) /\ Returned1(b) /\ res[a].fp = res[b].fp

\* C1: when no row exists for a fingerprint and two pollers reserve it
\* concurrently (the second reads its clock less than a dedupe window after
\* the first), the poller whose INSERT created the row gets
\* should_process = TRUE, the other gets FALSE, and one row exists.
C1_ReserveOnce ==
    \A a \in Workers, b \in Workers :
        ( /\ SameFingerprint(a, b)
          /\ res[a].path = "inserted"
          /\ res[b].at < res[a].at + DedupeWindow )
        => /\ res[a].sp
           /\ ~res[b].sp
           /\ Cardinality(RowsOf(ledger, res[a].fp)) = 1

C1_Witness ==
    \E a \in Workers, b \in Workers :
        /\ SameFingerprint(a, b)
        /\ res[a].path = "inserted"
        /\ res[b].path = "inflight"
        /\ pc[a] \in {"competition", "lookup", "create", "upload"}

\* C2: when two pollers reserve the same failed or stale fingerprint
\* concurrently (clock readings less than a dedupe window apart), at most
\* one of them gets should_process = TRUE.
C2_AtomicFlip ==
    \A a \in Workers, b \in Workers :
        ( /\ SameFingerprint(a, b)
          /\ res[a].path = "reclaimed"
          /\ res[b].at < res[a].at + DedupeWindow
          /\ res[a].at < res[b].at + DedupeWindow )
        => ~res[b].sp

\* C3: for every mailbox message at most one upload call succeeds.  Stated
\* for the attempts that begin after an earlier one has ended: no upload
\* succeeds in an attempt that began when the message's last attempt had
\* ended with a successful upload.
C3_AtMostOneUpload ==
    \A w \in Workers :
        (ret[w] = "uploaded" /\ res[w].prev = "uploaded")
        => uploads[Head(batch[w])] <= 1

\* C4: a row that is succeeded stays succeeded in every step, and a reserve
\* call that returns while its fingerprint's row is succeeded returns
\* should_process = FALSE.
C4_SucceededIsFinal ==
    [][ /\ \A r \in ledger : r.status = "succeeded" =>
              \E q \in ledger' : q.id = r.id /\ q.status = "succeeded"
        /\ \A w \in Workers :
              ( /\ res'[w] # res[w]
                /\ res'[w].path \notin {"none", "pending"}
                /\ \E r \in ledger : /\ r.fingerprint = res'[w].fp
                                     /\ r.status = "succeeded" )
              => ~res'[w].sp ]_vars

C4_Witness ==
    \E w \in Workers :
        /\ res[w].path = "succeeded"
        /\ \E r \in ledger : r.fingerprint = res[w].fp /\ r.status = "succeeded"
        /\ clock >= DedupeWindow

\* C5: in every step the ledger ends with at most one row per fingerprint
\* and keeps every row it had (same id, same fingerprint).
C5_OneRowPerFingerprint ==
    [][ /\ \A r \in ledger' : \A q \in ledger' :
              r.fingerprint = q.fingerprint => r = q
        /\ \A r \in ledger :
              \E q \in ledger' : q.id = r.id /\ q.fingerprint = r.fingerprint ]_vars

C5_Witness ==
    /\ Cardinality(ledger) = 2
    /\ \E w \in Workers : res[w].path \in {"inflight", "reclaimed"}

\* C6: when process_email returns from an attempt that was reserved
\* (should_process = TRUE), _update_email_processing_status has been called
\* exactly once in it.
C6_FinalizeOnce ==
    \A w \in Workers :
        (pc[w] = "store" /\ res[w].sp /\ ret[w] # "raised")
        => nFinal[w] = 1

\* C7: when a poller handles a message again after its last attempt failed
\* for lack of an active competition, a competition is active by now and no
\* other poller is at work, the poller is not told that the message is in
\* flight (should_process = FALSE for a row still `processing`): it goes on
\* to the upload.
C7_RetryAfterNoCompetition ==
    [][ \A w \in Workers :
          ( /\ pc[w] = "select"
            /\ res[w].prev = "no competition"
            /\ Head(batch[w]) \notin seen
            /\ active
            /\ \A o \in Workers \ {w} : pc[o] = "idle" )
          => res'[w].path # "inflight" ]_vars

\* C8: a message becomes seen only in the step of a poller that ends its
\* handling of that message with success = TRUE; a poller that ends a
\* message with success = FALSE (failed, or raised) leaves the flags as they
\* are, and so does the step that fetches a message.
C8_SeenOnlyAfterSuccess ==
    [][ /\ \A i \in seen' \ seen :
              \E w \in Workers : /\ pc[w] = "store" /\ pc'[w] # "store"
                                 /\ Head(batch[w]) = i
                                 /\ Success(w)
        /\ \A w \in Workers :
              (pc[w] = "store" /\ pc'[w] # "store" /\ ~Success(w)) => seen' = seen
        /\ \A w \in Workers :
              (pc[w] = "fetch" /\ pc'[w] # "fetch") => seen' = seen ]_vars

C8_Witness ==
    /\ \E i \in DOMAIN inbox : i \in seen /\ outcome[i] = "uploaded"
    /\ \E i \in DOMAIN inbox : i \notin seen /\ outcome[i] = "no attachment"
                               /\ \A w \in Workers : pc[w] = "idle"

\* C9: reserve on a fingerprint whose row is failed goes on to the UPDATE,
\* returns (TRUE, the row's id) and leaves the row processing, with no error
\* and updated_at = the call's `now`, unless the SELECT or the UPDATE raises.
C9_RetryFailed ==
    [][ \A w \in Workers :
          /\ ( /\ pc[w] = "select" /\ pc'[w] # "select"
               /\ res'[w].path # "error"
               /\ \E r \in RowsOf(ledger, Fingerprint(Cur(w))) : r.status = "failed" )
             => pc'[w] = "update"
          /\ ( /\ pc[w] = "update" /\ pc'[w] # "update"
               /\ res'[w].path # "error"
               /\ res[w].found.status = "failed" )
             => /\ res'[w].sp
                /\ res'[w].id = res[w].id
                /\ \E r \in ledger : r.id = res[w].id /\ r.fingerprint = res[w].fp
                /\ \E r \in ledger' : /\ r.id = res[w].id
                                      /\ r.status = "processing"
                                      /\ r.error = NoError
                                      /\ r.updated_at = now[w] ]_vars

C9_Witness ==
    \E w \in Workers :
        /\ res[w].path = "reclaimed"
        /\ res[w].found.status = "failed"
        /\ \E r \in ledger : r.id = res[w].id /\ r.status = "processing"

\* C10: a reserve call that finds the row processing returns
\* should_process = FALSE when now - updated_at < the dedupe window and TRUE
\* when it is at least the window.
C10_StaleReclaim ==
    \A w \in Workers :
        (Returned1(w) /\ res[w].found.status = "processing")
        => (res[w].sp <=> res[w].at - res[w].found.updated_at >= DedupeWindow)

C10_Witness ==
    \E a \in Workers, b \in Workers :
        /\ SameFingerprint(a, b)
        /\ res[a].found.status = "processing" /\ res[a].sp
        /\ res[b].found.status = "processing" /\ ~res[b].sp

\* C11: an exception raised while a reserved message is processed does not
\* reach the poller: no attempt that was reserved (should_process = TRUE)
\* ends in the `except` of check_inbox.
C11_ExceptionsCaught ==
    \A w \in Workers :
        (pc[w] = "store" /\ res[w].sp) => ret[w] # "raised"

\* C12: however the handling of a message ends (success, failure, or an
\* exception), the poller goes on with the rest of its batch: the step that
\* ends a message leaves the other messages of the batch to handle and
\* fetches the next one, and no other step of the poller drops a message or
\* ends the tick.
C12_BatchGoesOn ==
    [][ \A w \in Workers :
          /\ (pc[w] = "store" /\ pc'[w] # "store")
             => /\ batch'[w] = Tail(batch[w])
                /\ batch'[w] # <<>> => pc'[w] = "fetch"
          /\ pc[w] \notin {"store", "idle"}
             => /\ batch'[w] = batch[w]
                /\ pc'[w] # "idle" ]_vars

C12_Witness ==
    /\ polls = 1
    /\ outcome[1] = "raised"
    /\ \E w \in Workers : pc[w] = "insert" /\ batch[w] = <<2>>

\* C13: every message that arrives in the INBOX from the notifier carries the
\* marker header with the confirmation value and Auto-Submitted:
\* auto-generated; and a poller that fetches a message with these two headers
\* ends it at the guard, as a success, with no reserve call, no change of the
\* ledger, no upload and no notification.
C13_NoConfirmationLoop ==
    [][ /\ inbox' # inbox
           => /\ Len(inbox') = Len(inbox) + 1
              /\ inbox'[Len(inbox')].hdr = CONFIRMATION_HEADER_VALUE
              /\ inbox'[Len(inbox')].auto = "auto-generated"
        /\ \A w \in Workers :
             ( /\ pc[w] = "fetch" /\ pc'[w] # "fetch"
               /\ Cur(w).hdr = CONFIRMATION_HEADER_VALUE
               /\ Cur(w).auto = "auto-generated" )
             => /\ pc'[w] = "store"
                /\ ret'[w] = "guard"
                /\ res'[w].path = "none"
                /\ ledger' = ledger
                /\ uploads' = uploads
                /\ nUpload' = nUpload
                /\ nNotify' = nNotify
                /\ inbox' = inbox ]_vars

C13_Witness ==
    /\ inbox[1] = SelfSent
    /\ \E w \in Workers :
         /\ pc[w] = "store"
         /\ Head(batch[w]) > 1
         /\ ret[w] = "guard"

ListedSkip(m) ==
    \/ Lower(m.hdr) = "confirmation"
    \/ m.auto # "" /\ Lower(m.auto) # "no"
    \/ Lower(m.prec) \in {"auto_reply", "bulk", "junk", "list"}
    \/ m.from = EMAIL_USERNAME /\ m.subj \in {"OK Tom's Gym", "FAIL Tom's Gym"}

\* C15: the step that fetches a message ends it at the guard exactly when
\* one of the four listed conditions holds; otherwise (a self-sent message
\* with none of the markers included) the message goes on to the reserve
\* call.
C15_GuardExactly ==
    [][ \A w \in Workers :
          (pc[w] = "fetch" /\ pc'[w] # "fetch")
          => IF ListedSkip(Cur(w))
               THEN pc'[w] = "store" /\ ret'[w] = "guard"
               ELSE pc'[w] = "insert" ]_vars

C15_Witness ==
    \E w \in Workers :
        /\ pc[w] = "insert"
        /\ Cur(w).from = EMAIL_USERNAME
        /\ Cur(w).subj = "lift"
        /\ Cur(w).auto = "No"
        /\ Cur(w).hdr = "other"

\* C16: when a reserved attempt ends with a successful upload, the user
\* exists and the message's ledger row is succeeded.
C16_UploadLeavesSucceeded ==
    \A w \in Workers :
        (pc[w] = "store" /\ ret[w] = "uploaded" /\ res[w].sp)
        => /\ uid[w] \in users
           /\ \E r \in ledger : r.id = rid[w] /\ r.status = "succeeded"

\* C17: when a reserved attempt has ended, send_confirmation_email has been
\* called exactly once in it, with success = TRUE if the upload succeeded
\* and FALSE otherwise.
C17_OneNotification ==
    \A w \in Workers :
        (pc[w] = "store" /\ res[w].sp)
        => /\ nNotify[w] = 1
           /\ notified[w].kind = IF ret[w] = "uploaded" THEN "ok" ELSE "fail"

\* C18: when the reserve call has returned should_process = FALSE, the
\* attempt is over and counts as a success, with no upload call, no
\* notification and no user looked up or created.
C18_DuplicateIsTerminalSkip ==
    \A w \in Workers :
        (Returned1(w) /\ ~res[w].sp)
        => /\ pc[w] = "store"
           /\ ret[w] = "duplicate"
           /\ Success(w)
           /\ nUpload[w] = 0
           /\ nNotify[w] = 0
           /\ notified[w] = NoNote
           /\ uid[w] = ""

C18_Witness ==
    \E w \in Workers, o \in Workers :
        /\ res[w].path = "inflight"
        /\ pc[w] = "store"
        /\ pc[o] = "upload"
        /\ users # {}

\* C19: when an upload succeeded and its notification did not leave, the
\* attempt is still reported as a success and the message's ledger row is
\* succeeded.
C19_NotificationFailureHarmless ==
    \A w \in Workers :
        (pc[w] = "store" /\ ret[w] = "uploaded" /\ ~notified[w].sent)
        => /\ Success(w)
           /\ \E r \in ledger : r.id = rid[w] /\ r.status = "succeeded"

\* C20: when an attempt reaches the creation of the user and a user row for
\* the sender exists by then (the lookup had found none: a concurrent creator
\* inserted it first), the attempt does not end with "failed to create user":
\* it goes on with the existing user.
C20_CreateRaceLooksUpAgain ==
    [][ \A w \in Workers :
          ( /\ pc[w] = "create" /\ pc'[w] # "create"
            /\ extract_original_sender(Cur(w)) \in users )
          => /\ ret'[w] # "no user"
             /\ uid'[w] = extract_original_sender(Cur(w)) ]_vars

\* C21: a call of add_user_to_competition that finds a link of the user to
\* the competition inserts nothing and returns the id of a link that is
\* there (the one link's id when there is one); a call that finds none
\* inserts at most one row and returns the id of the row it inserted.
C21_EnrollOnce ==
    [][\A w \in Workers :
          /\ (pc[w] = "enrollSelect" /\ pc'[w] # "enrollSelect" /\ enrolled[uid[w]] > 0)
                => /\ enrolled' = enrolled
                   /\ pc'[w] = "upload"
                   /\ usercomp'[w] \in 1..enrolled[uid[w]]
          /\ (pc[w] = "enrollInsert" /\ pc'[w] # "enrollInsert")
                => \/ /\ enrolled' = enrolled
                      /\ usercomp'[w] = NoId
                   \/ /\ enrolled' = [enrolled EXCEPT ![uid[w]] = @ + 1]
                      /\ usercomp'[w] = enrolled'[uid[w]]]_vars

\* Two callers hold the result of their call for the same user, there is one
\* link, and both results are its id: one call inserted, the other found it.
C21_Witness ==
    \E a, b \in Workers :
        /\ a # b
        /\ pc[a] = "upload" /\ pc[b] = "upload"
        /\ uid[a] = uid[b]
        /\ enrolled[uid[a]] = 1
        /\ usercomp[a] = 1 /\ usercomp[b] = 1

\* C22: when the bucket refuses the blob of a POST /upload request that
\* passed the checks of the file part, the response carries an error status
\* and the "Attempt" rows of the user and competition are what they were.
C22_StorageFailureNoAttempt ==
    call.op = "upload" =>
        LET req == call.in[1]
            db == call.in[2]
        IN  (req.video # "none" /\ allowed_file(req.video) /\ ~req.storage)
               => /\ call.out.status >= 400
                  /\ call.out.attempts = db.attempts
                  /\ ~call.out.stored

\* A request with a video the bucket refused, for a user who has an attempt.
C22_Witness ==
    /\ call.op = "upload"
    /\ call.in[1].video = "lift.MOV"
    /\ ~call.in[1].storage
    /\ call.in[2].attempts = 1
    /\ call.out.status = 500

\* C23: the fingerprint depends on the sender, the subject, the date and the
\* first FpBodyLen tokens of the body only: equal inputs give equal
\* fingerprints, and so do inputs that differ only in the body beyond them.
C23_FingerprintTruncates ==
    call.op = "fingerprint" =>
        LET a == call.in[1]
            b == call.in[2]
            Head500(body) == SubSeq(body, 1, Min(Len(body), FpBodyLen))
        IN  /\ a = b => call.out[1] = call.out[2]
            /\ (/\ a.from = b.from
                /\ a.subject = b.subject
                /\ a.date = b.date
                /\ Head500(a.body) = Head500(b.body)) => call.out[1] = call.out[2]

\* Two inputs whose bodies differ beyond the first FpBodyLen tokens collide.
C23_Witness ==
    /\ call.op = "fingerprint"
    /\ call.in[1].body # call.in[2].body
    /\ Len(call.in[1].body) > FpBodyLen
    /\ Len(call.in[2].body) > FpBodyLen
    /\ call.out[1] = call.out[2]

\* The text "t30g <number><unit> <word>", each part after the number optional.
C24_Directive(num, unit, word) ==
    <<"t30g", " ", num>> \o (IF unit = "" THEN <<>> ELSE <<unit>>)
                         \o (IF word = <<>> THEN <<>> ELSE <<" ">> \o word)

\* The tag, blanks and a number somewhere in the text.
C24_HasDirective(text) ==
    \E i \in 1..Len(text), j \in 1..Len(text) :
        /\ Lower(text[i]) = "t30g"
        /\ i + 1 < j
        /\ \A n \in (i + 1)..(j - 1) : text[n] = " "
        /\ text[j] \in DOMAIN NumberValue

\* C24: parse_t30g_message returns None exactly for the texts without a
\* directive; of a directive with a lift word of the alias table it returns
\* that alias's lift, of one with another word or none it returns 'Snatch'.
C24_ParseTag ==
    call.op = "parse" =>
        /\ call.out.found <=> C24_HasDirective(call.in)
        /\ \A num \in DOMAIN NumberValue, unit \in DOMAIN UnitMatch \cup {""},
              word \in {<<>>, <<"sq">>, <<"squat">>, <<"DL">>, <<"zz">>, <<"c", "&", "j">>} :
              call.in = C24_Directive(num, unit, word)
                 => /\ call.out.found
                    /\ call.out.lift_type =
                          IF LowerAll(word) \in DOMAIN LIFT_TYPE_ALIASES
                             THEN LIFT_TYPE_ALIASES[LowerAll(word)]
                             ELSE "Snatch"

\* C25: a POST /email/test request changes nothing of the mailbox, the
\* ledger, the users, the links, the uploads or the pollers, sends nothing,
\* and answers with what parse_t30g_message makes of the body.
C25_TestParseOnly ==
    [][(call.op = "none" /\ call'.op = "test")
          => /\ pipeline' = pipeline
             /\ call'.out = test_parse(call'.in)]_vars

\* A request whose body holds a directive was answered while the ledger held
\* a row.
C25_Witness ==
    /\ call.op = "test"
    /\ call.in.hasBody
    /\ call.out.success
    /\ call.out.parsed.lift_type = "Deadlift"
    /\ ledger # {}

\* Poller w is handling message i.
Processing(w, i) == pc[w] # "idle" /\ batch[w] # <<>> /\ Head(batch[w]) = i

\* C26: a message that is flagged seen while no poller is handling it was
\* skipped by the guard, or the ledger row of its fingerprint is succeeded.
C26_SeenMeansSettled ==
    \A i \in DOMAIN inbox :
        (i \in seen /\ \A w \in Workers : ~Processing(w, i))
        => \/ ShouldSkip(inbox[i])
           \/ \E r \in ledger : /\ r.fingerprint = Fingerprint(inbox[i])
                                /\ r.status = "succeeded"

\* The changes of status the ledger allows.
C27_Edges == {<<"processing", "succeeded">>, <<"processing", "failed">>,
              <<"failed", "processing">>, <<"processing", "processing">>}

\* C27: in every step a new ledger row is processing, and a row that was
\* there keeps its status or changes it along processing -> succeeded,
\* processing -> failed or failed -> processing (a processing row that is
\* reclaimed stays processing); a succeeded row never changes its status and
\* a failed row never becomes succeeded.
C27_StatusEdges ==
    [][ \A r \in ledger' :
          IF \E q \in ledger : q.id = r.id
            THEN \A q \in ledger :
                   q.id = r.id => \/ q.status = r.status
                                  \/ <<q.status, r.status>> \in C27_Edges
            ELSE r.status = "processing" ]_vars

\* A failed row was taken back to processing by one poller and, a dedupe
\* window later, taken again as a stale processing row by the other.
C27_Witness ==
    \E a \in Workers, b \in Workers :
        /\ SameFingerprint(a, b)
        /\ res[a].path = "reclaimed" /\ res[a].found.status = "failed"
        /\ res[b].path = "reclaimed" /\ res[b].found.status = "processing"
        /\ res[b].found.updated_at = res[a].at

\* C28: a message whose last attempt stopped between the reservation and the
\* finalize stays unseen until a poller reclaims it: the step that ends a
\* later handling of it in which the reserve call returned should_process =
\* FALSE (the row still inside the dedupe window) does not flag it seen.
C28_CrashedStaysUnseen ==
    [][ \A w \in Workers :
          ( /\ pc[w] = "store" /\ pc'[w] # "store"
            /\ res[w].prev = "crashed"
            /\ res[w].path = "inflight" )
          => Head(batch[w]) \notin seen' ]_vars

\* C29: when a reserved attempt has ended for lack of a video attachment,
\* the message's ledger row is failed with the no-attachment error, one
\* failure notification was attempted, no upload call was made, no user was
\* looked up or created, and the attempt counts as a failure (the message
\* stays unseen).
C29_NoAttachmentFails ==
    \A w \in Workers :
        (pc[w] = "store" /\ res[w].sp /\ ret[w] = "no attachment")
        => /\ \E r \in ledger : /\ r.id = rid[w]
                                /\ r.status = "failed"
                                /\ r.error = "No video attachment found"
           /\ nNotify[w] = 1
           /\ notified[w].kind = "fail"
           /\ nUpload[w] = 0
           /\ uid[w] = ""
           /\ ~Success(w)

\* C30: when the upload call of a reserved attempt has failed, one upload
\* call was made in the attempt, the message's ledger row is failed with the
\* error text, one failure notification was attempted, and the attempt counts
\* as a failure (the message stays unseen).
C30_UploadFailureFails ==
    \A w \in Workers :
        (pc[w] = "store" /\ res[w].sp /\ ret[w] = "upload failed")
        => /\ nUpload[w] = 1
           /\ \E r \in ledger : /\ r.id = rid[w]
                                /\ r.status = "failed"
                                /\ r.error = "Upload failed"
           /\ nNotify[w] = 1
           /\ notified[w].kind = "fail"
           /\ ~Success(w)

\* C33: of a directive whose unit is spelled lb, lbs, pound or pounds
\* parse_t30g_message returns the number converted to kilograms (times
\* 0.453592, rounded to hundredths); of one spelled kg or kgs, or with no
\* unit, it returns the number as kilograms.
C33_PoundsConverted ==
    call.op = "parse" =>
        \A num \in DOMAIN NumberValue, unit \in DOMAIN UnitMatch \cup {""},
           word \in {<<>>, <<"sq">>, <<"zz">>} :
           call.in = C24_Directive(num, unit, word)
              => /\ call.out.found
                 /\ call.out.weight_kg =
                       IF unit \in {"lb", "lbs", "pound", "pounds"}
                          THEN PoundsToKg(NumberValue[num])
                          ELSE NumberValue[num] * 100

\* C34: get_email_body returns the text of the first text/plain part that is
\* not attachment-disposed, whatever parts come before or after it; when the
\* message has no such part it returns the first text/html part (not
\* attachment-disposed) with its tags stripped and its blanks collapsed.
C34_FirstPlainPart ==
    call.op = "body" =>
        LET parts == call.in.parts
            First(type) ==
                LET S == {n \in DOMAIN parts : parts[n].type = type /\ ~parts[n].attached}
                IN  IF S = {} THEN 0 ELSE CHOOSE n \in S : \A m \in S : n <= m
        IN  IF First("text/plain") # 0
              THEN call.out = parts[First("text/plain")].payload
              ELSE First("text/html") # 0
                      => call.out = CollapseSpaces(StripTags(parts[First("text/html")].payload))

\* C31: a reserved attempt on a message whose body holds no tag goes on with
\* the default weight and the active competition's default lift type as its
\* metadata, and when its upload has succeeded the message's ledger row is
\* succeeded.
C31_NoTagUsesDefaults ==
    \A w \in Workers :
        (res[w].sp /\ batch[w] # <<>> /\ ~parse_t30g_message(Cur(w).body).found)
        => /\ meta[w] # NoMeta
              => meta[w] = [weight_kg |-> DefaultWeightKg,
                            lift_type |-> default_lift_type(ActiveCompetition)]
           /\ (pc[w] = "store" /\ ret[w] = "uploaded")
              => /\ meta[w] # NoMeta
                 /\ \E r \in ledger : r.id = rid[w] /\ r.status = "succeeded"

\* C32: an exception that ends a poll tick (the connection, the login or the
\* search raising) is caught: it is recorded as last_error, the loop is not
\* stopped by it (nor by anything else) and is back in its sleep, from which
\* the next tick starts.
C32_TickExceptionCaught ==
    \A w \in Workers :
        /\ pc[w] # "stopped"
        /\ results[w].error = "Error checking inbox"
              => /\ last_error = results[w].error
                 /\ pc[w] = "idle"

\* A's first tick ended with the exception, and A is in its next tick.
C32_Witness ==
    /\ last_error = "Error checking inbox"
    /\ results["B"] = NoResults
    /\ results["A"] = NewResults
    /\ pc["A"] = "fetch"

\* C35: a reserve call is never answered should_process = FALSE on account
\* of another message: unless the store was unreachable, a call that returns
\* FALSE has found a row of its own fingerprint in the ledger, whatever
\* Message-IDs the rows of other fingerprints carry.
C35_DistinctFingerprintsIndependent ==
    \A w \in Workers :
        (Returned1(w) /\ ~res[w].sp /\ res[w].path # "error")
        => RowsOf(ledger, res[w].fp) # {}

\* C36: when the store raises during reserve, the call returns
\* should_process = FALSE with no record id, and the attempt on the message
\* ends there: it is returned as a skipped duplicate with no upload call and
\* no notification.
C36_ReserveErrorFailsClosed ==
    \A w \in Workers :
        res[w].path = "error"
        => /\ ~res[w].sp
           /\ res[w].id = NoId
           /\ rid[w] = NoId
           /\ pc[w] = "store"
           /\ ret[w] = "duplicate"
           /\ nUpload[w] = 0
           /\ nNotify[w] = 0
           /\ nFinal[w] = 0

\* The store raised during B's reserve call while A holds a reservation.
C36_Witness ==
    /\ res["B"].path = "error"
    /\ pc["B"] = "store"
    /\ res["A"].path = "inserted"

\* C37: the steps of a reserve call that does not return should_process =
\* TRUE (the INSERT that does nothing, the SELECT, a return of FALSE for a
\* succeeded row, for a row in flight or after an exception) leave the ledger
\* as it is: no row is added and no row's status, error or updated_at changes.
C37_SkipLeavesLedger ==
    [][ \A w \in Workers :
          ( /\ pc[w] \in {"insert", "select", "update"}
            /\ pc'[w] # pc[w]
            /\ pc'[w] # "competition" )
          => ledger' = ledger ]_vars

\* A call that found its row in flight has returned FALSE at a later time
\* than the row's updated_at, and the row still carries that updated_at.
C37_Witness ==
    \E w \in Workers :
        /\ pc[w] = "store"
        /\ res[w].path = "inflight"
        /\ res[w].at > res[w].found.updated_at
        /\ \E r \in ledger : /\ r.id = res[w].id
                             /\ r.updated_at = res[w].found.updated_at

\* C38: in the results that a tick returns when it did not end with a
\* top-level error, processed is succeeded plus failed, and failed is the
\* number of entries of errors.
C38_CountersAgree ==
    \A w \in Workers :
        (pc[w] = "idle" /\ results[w].error = NoError)
        => /\ results[w].processed = results[w].succeeded + results[w].failed
           /\ results[w].failed = Len(results[w].errors)

====
